---- MODULE Spec2Model ----
(***************************************************************************)
(* Model of realtime-api.py: the JSON flattener (flatten_json), the URI    *)
(* parser (WeatherRealtimeApiSource.nilus_source), the source constructor  *)
(* (weather_source) and the record generator (weather_records).            *)
(*                                                                         *)
(* Text that the program scans (URIs, URLs, keys, messages) is a sequence  *)
(* of one-character strings, so that find, split, replace, percent- and    *)
(* base64-decoding are computed character by character.  The fixed text of *)
(* a log or error message is kept as one multi-character element.          *)
(* JSON object keys and scalars are TLA+ strings.                          *)
(***************************************************************************)
EXTENDS Integers, Sequences, FiniteSets, TLC

VARIABLES
    fj_pc, fj_in, fj_sep, fj_out,
    pc, input_uri, given, pipeline_log, raised, args, source, now, runs, modern_requests

\* flatten_json called on its own: the call's position, its input, its
\* separator and its result.
flattenVars == <<fj_pc, fj_in, fj_sep, fj_out>>
\* The pipeline: pc is its position (parse, construct, ready, failed),
\* input_uri the input of nilus_source, given what the URI was built from,
\* pipeline_log the lines logged before any run, raised the exception that ended it, args the
\* arguments passed to weather_source, source what weather_source bound,
\* now the clock, runs the last two runs of the generator (the last one may
\* be under way; the program itself keeps nothing of a run), modern_requests whether the installed requests library
\* raises a RequestException when a body is no JSON (2.27 and later).
pipeVars == <<pc, input_uri, given, pipeline_log, raised, args, source, now, runs, modern_requests>>
vars == <<fj_pc, fj_in, fj_sep, fj_out,
          pc, input_uri, given, pipeline_log, raised, args, source, now, runs, modern_requests>>

(***************************************************************************)
(* Python values                                                           *)
(***************************************************************************)

\* Python's None, where a text (a sequence of characters) is expected.
None == <<"None">>

\* A JSON value: t is "obj" (dict), "arr" (list) or "val" (a scalar, whose
\* JSON text is v).  kids holds the members in insertion order, each
\* [key, node]; a list member's key is "" and its index is its position.
Val(v) == [t |-> "val", v |-> v, kids |-> <<>>]
Obj(kids) == [t |-> "obj", v |-> "", kids |-> kids]
Arr(items) == [t |-> "arr", v |-> "", kids |-> [i \in 1..Len(items) |-> [key |-> "", node |-> items[i]]]]
KV(k, node) == [key |-> k, node |-> node]

\* isinstance(value, (dict, list))
IsContainer(j) == j.t \in {"obj", "arr"}

\* A Python dict is its items in insertion order, each [key, val], keys
\* unique.  d[k] = v keeps the position of a key already present.
DictSet(d, k, v) ==
    IF \E i \in 1..Len(d) : d[i].key = k
    THEN [i \in 1..Len(d) |-> IF d[i].key = k THEN [key |-> k, val |-> v] ELSE d[i]]
    ELSE Append(d, [key |-> k, val |-> v])

\* dict(items)
RECURSIVE DictOf(_)
DictOf(items) ==
    IF items = <<>> THEN <<>>
    ELSE LET n == Len(items)
         IN DictSet(DictOf(SubSeq(items, 1, n - 1)), items[n].key, items[n].val)

DictKeys(d) == {d[i].key : i \in 1..Len(d)}
DictGetVal(d, k) == (CHOOSE i \in 1..Len(d) : d[i].key = k)
\* The dict as a mapping (two dicts are equal in Python when these are).
AsMap(d) == [k \in DictKeys(d) |-> d[DictGetVal(d, k)].val]

Digit == <<"0", "1", "2", "3", "4", "5", "6", "7", "8", "9">>
\* str(i) of a non-negative int
RECURSIVE IntStr(_)
IntStr(i) == IF i < 10 THEN Digit[i + 1] ELSE IntStr(i \div 10) \o Digit[(i % 10) + 1]

(***************************************************************************)
(* Python str operations on texts (sequences of one-character strings)     *)
(***************************************************************************)

\* The printable ASCII characters, code 32 to 126 (the grave accent, which a
\* TLA+ string cannot hold, is written "<96>").
Ascii ==
    <<" ", "!", "\"", "#", "$", "%", "&", "'", "(", ")", "*", "+",
      ",", "-", ".", "/", "0", "1", "2", "3", "4", "5", "6", "7",
      "8", "9", ":", ";", "<", "=", ">", "?", "@", "A", "B", "C",
      "D", "E", "F", "G", "H", "I", "J", "K", "L", "M", "N", "O",
      "P", "Q", "R", "S", "T", "U", "V", "W", "X", "Y", "Z", "[",
      "\\", "]", "^", "_", "<96>", "a", "b", "c", "d", "e", "f", "g",
      "h", "i", "j", "k", "l", "m", "n", "o", "p", "q", "r", "s",
      "t", "u", "v", "w", "x", "y", "z", "{", "|", "}", "~">>

\* chr(n) for a byte: a printable character, tab, newline, carriage return;
\* any other code is kept as one element "<n>".
Chr(n) ==
    IF n >= 32 /\ n <= 126 THEN Ascii[n - 31]
    ELSE IF n = 9 THEN "\t" ELSE IF n = 10 THEN "\n" ELSE IF n = 13 THEN "\r"
    ELSE "<" \o IntStr(n) \o ">"
\* ord(c) of a printable character, 0 for any other element
Ord(c) == IF \E i \in 1..Len(Ascii) : Ascii[i] = c
          THEN 31 + (CHOOSE i \in 1..Len(Ascii) : Ascii[i] = c) ELSE 0

IsUpper(c) == Ord(c) >= 65 /\ Ord(c) <= 90
IsLower(c) == Ord(c) >= 97 /\ Ord(c) <= 122
IsDigit(c) == Ord(c) >= 48 /\ Ord(c) <= 57
\* str.lower()
Lower(s) == [i \in 1..Len(s) |-> IF IsUpper(s[i]) THEN Chr(Ord(s[i]) + 32) ELSE s[i]]

\* s[:n] and s[n:] (n characters in, Python's slice bounds)
Take(s, n) == SubSeq(s, 1, IF n > Len(s) THEN Len(s) ELSE n)
Drop(s, n) == SubSeq(s, n + 1, Len(s))

\* s.startswith(p)
StartsWith(s, p) == Len(s) >= Len(p) /\ SubSeq(s, 1, Len(p)) = p

\* s.find(p) + 1: the position of the first occurrence of p, or 0
Find(s, p) ==
    LET hits == {i \in 1..(Len(s) - Len(p) + 1) : SubSeq(s, i, i + Len(p) - 1) = p}
    IN IF hits = {} THEN 0 ELSE CHOOSE i \in hits : \A j \in hits : i <= j

\* p in s
Contains(s, p) == Find(s, p) # 0

\* s.replace(old, new); with old empty, new goes before every character
\* and after the last one.
RECURSIVE Replace(_, _, _)
Replace(s, old, new) ==
    IF old = <<>>
    THEN IF s = <<>> THEN new ELSE new \o <<s[1]>> \o Replace(Tail(s), old, new)
    ELSE IF Len(s) < Len(old) THEN s
    ELSE IF StartsWith(s, old) THEN new \o Replace(Drop(s, Len(old)), old, new)
    ELSE <<s[1]>> \o Replace(Tail(s), old, new)

Whitespace == {" ", "\t", "\n", "\r", "<11>", "<12>", "<28>", "<29>", "<30>", "<31>"}
\* s.strip()
RECURSIVE Strip(_)
Strip(s) ==
    IF s = <<>> THEN s
    ELSE IF s[1] \in Whitespace THEN Strip(Tail(s))
    ELSE IF s[Len(s)] \in Whitespace THEN Strip(SubSeq(s, 1, Len(s) - 1))
    ELSE s

\* s.split(c): the pieces between the occurrences of the character c
RECURSIVE Split(_, _)
Split(s, c) ==
    LET i == Find(s, <<c>>)
    IN IF i = 0 THEN <<s>> ELSE <<Take(s, i - 1)>> \o Split(Drop(s, i), c)

\* s.split(c, 1)
SplitOnce(s, c) ==
    LET i == Find(s, <<c>>)
    IN IF i = 0 THEN <<s>> ELSE <<Take(s, i - 1), Drop(s, i)>>

\* sep.join(parts)
RECURSIVE Join(_, _)
Join(parts, sep) ==
    IF parts = <<>> THEN <<>>
    ELSE IF Len(parts) = 1 THEN parts[1]
    ELSE parts[1] \o sep \o Join(Tail(parts), sep)

\* bool(s) of a str or None
Truthy(s) == s # None /\ s # <<>>

(***************************************************************************)
(* urllib.parse and base64                                                 *)
(***************************************************************************)

HexDigits == <<"0", "1", "2", "3", "4", "5", "6", "7", "8", "9", "A", "B", "C", "D", "E", "F">>
IsHex(c) == \E i \in 1..16 : HexDigits[i] = c \/ Lower(<<HexDigits[i]>>)[1] = c
HexVal(c) == (CHOOSE i \in 1..16 : HexDigits[i] = c \/ Lower(<<HexDigits[i]>>)[1] = c) - 1

\* urllib.parse.unquote(s): every %XX becomes the character of code XX (a
\* code above 127 is kept as one element "<n>"); a % that two hex digits do
\* not follow stays.
RECURSIVE unquote(_)
unquote(s) ==
    IF s = <<>> THEN s
    ELSE IF s[1] = "%" /\ Len(s) >= 3 /\ IsHex(s[2]) /\ IsHex(s[3])
         THEN <<Chr(16 * HexVal(s[2]) + HexVal(s[3]))>> \o unquote(Drop(s, 3))
         ELSE <<s[1]>> \o unquote(Tail(s))

\* The characters urllib.parse.quote never escapes.
AlwaysSafe(c) == IsUpper(c) \/ IsLower(c) \/ IsDigit(c) \/ c \in {"_", ".", "-", "~"}
\* urllib.parse.quote_plus(s)
RECURSIVE quote_plus(_)
quote_plus(s) ==
    IF s = <<>> THEN s
    ELSE (IF AlwaysSafe(s[1]) THEN <<s[1]>>
          ELSE IF s[1] = " " THEN <<"+">>
          ELSE <<"%", HexDigits[(Ord(s[1]) \div 16) + 1], HexDigits[(Ord(s[1]) % 16) + 1]>>)
         \o quote_plus(Tail(s))

SchemeChar(c) == IsUpper(c) \/ IsLower(c) \/ IsDigit(c) \/ c \in {"+", "-", "."}
\* The position of the first of / ? # in s at or after position from, or
\* Len(s) + 1.
FirstDelim(s, from) ==
    LET hits == {i \in from..Len(s) : s[i] \in {"/", "?", "#"}}
    IN IF hits = {} THEN Len(s) + 1 ELSE CHOOSE i \in hits : \A j \in hits : i <= j
LastIndexOf(s, c) ==
    LET hits == {i \in 1..Len(s) : s[i] = c}
    IN IF hits = {} THEN 0 ELSE CHOOSE i \in hits : \A j \in hits : i >= j
UsesParams == {<<>>, <<"f", "t", "p">>, <<"h", "t", "t", "p">>, <<"h", "t", "t", "p", "s">>}

\* urllib.parse.urlparse(url) for a url without brackets: the scheme, the
\* netloc after //, the path, the ;parameters of the last path segment
\* (schemes of UsesParams only), the query after the first ? and the
\* fragment after the first #.  Each step hands what is left to the next.
SplitParams(scheme, netloc, rest, query, fragment) ==
    LET slash == LastIndexOf(rest, "/")
        semi == IF slash > 0
                THEN (LET k == Find(Drop(rest, slash - 1), <<";">>)
                      IN IF k = 0 THEN 0 ELSE slash - 1 + k)
                ELSE Find(rest, <<";">>)
        split_params == scheme \in UsesParams /\ semi > 0
    IN [scheme |-> scheme, netloc |-> netloc,
        path |-> IF split_params THEN Take(rest, semi - 1) ELSE rest,
        params |-> IF split_params THEN Drop(rest, semi) ELSE <<>>,
        query |-> query, fragment |-> fragment]
SplitQuery(scheme, netloc, rest, fragment) ==
    LET qmark == Find(rest, <<"?">>)
    IN SplitParams(scheme, netloc,
                   IF qmark > 0 THEN Take(rest, qmark - 1) ELSE rest,
                   IF qmark > 0 THEN Drop(rest, qmark) ELSE <<>>,
                   fragment)
SplitFragment(scheme, netloc, rest) ==
    LET hash == Find(rest, <<"#">>)
    IN SplitQuery(scheme, netloc,
                  IF hash > 0 THEN Take(rest, hash - 1) ELSE rest,
                  IF hash > 0 THEN Drop(rest, hash) ELSE <<>>)
SplitNetloc(scheme, rest) ==
    LET has_netloc == StartsWith(rest, <<"/", "/">>)
        delim == FirstDelim(rest, 3)
    IN SplitFragment(scheme,
                     IF has_netloc THEN SubSeq(rest, 3, delim - 1) ELSE <<>>,
                     IF has_netloc THEN Drop(rest, delim - 1) ELSE rest)
urlparse(url) ==
    LET colon == Find(url, <<":">>)
        has_scheme == /\ colon > 1
                      /\ (IsUpper(url[1]) \/ IsLower(url[1]))
                      /\ \A i \in 1..(colon - 1) : SchemeChar(url[i])
    IN SplitNetloc(IF has_scheme THEN Lower(Take(url, colon - 1)) ELSE <<>>,
                   IF has_scheme THEN Drop(url, colon) ELSE url)

\* One name=value field of a query string, as parse_qsl reads it with
\* keep_blank_values: + is a space, then both sides are unquoted.
QsField(name_value) ==
    LET nv == SplitOnce(name_value, "=")
    IN [name |-> unquote(Replace(nv[1], <<"+">>, <<" ">>)),
        value |-> IF Len(nv) = 2 THEN unquote(Replace(nv[2], <<"+">>, <<" ">>)) ELSE <<>>]

\* urllib.parse.parse_qsl(qs, keep_blank_values=True): the fields between
\* the & signs, the empty ones skipped.
parse_qsl(qs) ==
    LET pairs == Split(qs, "&")
        kept == SelectSeq(pairs, LAMBDA nv : nv # <<>>)
    IN [i \in 1..Len(kept) |-> QsField(kept[i])]

\* urllib.parse.parse_qs(qs, keep_blank_values=True)[name], or NoValues:
\* the values of the fields called name, in order.
NoValues == <<None>>
QsValues(fields, name) ==
    LET mine == SelectSeq(fields, LAMBDA f : f.name = name)
    IN [i \in 1..Len(mine) |-> mine[i].value]
\* url_query_params.get(name, [None])[0]
QsGetFirst(fields, name) ==
    IF QsValues(fields, name) = <<>> THEN NoValues[1] ELSE QsValues(fields, name)[1]

\* The names of the fields in the order of their first occurrence (the key
\* order of the dict parse_qs returns).
RECURSIVE QsNames(_, _)
QsNames(fields, seen) ==
    IF fields = <<>> THEN <<>>
    ELSE IF fields[1].name \in seen THEN QsNames(Tail(fields), seen)
    ELSE <<fields[1].name>> \o QsNames(Tail(fields), seen \cup {fields[1].name})

\* urllib.parse.urlencode(query, doseq=True) of the dict that holds the
\* fields whose names are `names`: name=value for every value of every
\* name, joined by &.
RECURSIVE UrlencodeNames(_, _)
UrlencodeNames(fields, names) ==
    IF names = <<>> THEN <<>>
    ELSE LET vs == QsValues(fields, names[1])
         IN [i \in 1..Len(vs) |-> quote_plus(names[1]) \o <<"=">> \o quote_plus(vs[i])]
            \o UrlencodeNames(fields, Tail(names))
urlencode(fields, names) == Join(UrlencodeNames(fields, names), <<"&">>)

B64Alphabet ==
    <<"A", "B", "C", "D", "E", "F", "G", "H", "I", "J", "K", "L", "M",
      "N", "O", "P", "Q", "R", "S", "T", "U", "V", "W", "X", "Y", "Z",
      "a", "b", "c", "d", "e", "f", "g", "h", "i", "j", "k", "l", "m",
      "n", "o", "p", "q", "r", "s", "t", "u", "v", "w", "x", "y", "z",
      "0", "1", "2", "3", "4", "5", "6", "7", "8", "9", "+", "/">>
IsB64(c) == \E i \in 1..64 : B64Alphabet[i] = c
B64Val(c) == (CHOOSE i \in 1..64 : B64Alphabet[i] = c) - 1

\* binascii.a2b_base64(s), not strict: characters outside the alphabet are
\* skipped, a data character resets the padding count, padding that
\* completes a quad ends the input; quad is the number of data characters
\* of the current quad, bits their value so far.  The result is the bytes,
\* or the failure.
RECURSIVE B64Scan(_, _, _, _, _)
B64Scan(s, quad, bits, pads, out) ==
    IF s = <<>>
    THEN IF quad = 0 THEN [ok |-> TRUE, bytes |-> out, error |-> ""]
         ELSE [ok |-> FALSE, bytes |-> <<>>,
               error |-> IF quad = 1 THEN "Invalid base64-encoded string: number of data characters cannot be 1 more than a multiple of 4"
                         ELSE "Incorrect padding"]
    ELSE IF s[1] = "="
         THEN IF quad >= 2 /\ quad + pads + 1 >= 4
              THEN [ok |-> TRUE, bytes |-> out, error |-> ""]
              ELSE B64Scan(Tail(s), quad, bits, IF quad >= 2 THEN pads + 1 ELSE pads, out)
    ELSE IF ~IsB64(s[1]) THEN B64Scan(Tail(s), quad, bits, pads, out)
    ELSE LET v == B64Val(s[1])
         IN IF quad = 0 THEN B64Scan(Tail(s), 1, v, 0, out)
            ELSE IF quad = 1 THEN B64Scan(Tail(s), 2, v % 16, 0, Append(out, bits * 4 + v \div 16))
            ELSE IF quad = 2 THEN B64Scan(Tail(s), 3, v % 4, 0, Append(out, bits * 16 + v \div 4))
            ELSE B64Scan(Tail(s), 0, 0, 0, Append(out, bits * 64 + v))
b64decode(s) == B64Scan(s, 0, 0, 0, <<>>)

\* bytes.decode("utf-8"): the lead byte says how many continuation bytes
\* (128 to 191) follow; a character outside ASCII is kept as one element.
Utf8Need(b) == IF b < 128 THEN 0
               ELSE IF b >= 194 /\ b <= 223 THEN 1
               ELSE IF b >= 224 /\ b <= 239 THEN 2
               ELSE IF b >= 240 /\ b <= 244 THEN 3
               ELSE 4
IsCont(b) == b >= 128 /\ b <= 191
\* The second byte ranges that the lead bytes E0, ED, F0 and F4 narrow.
Utf8SecondOk(lead, b) ==
    IF lead = 224 THEN b >= 160 /\ b <= 191
    ELSE IF lead = 237 THEN b >= 128 /\ b <= 159
    ELSE IF lead = 240 THEN b >= 144 /\ b <= 191
    ELSE IF lead = 244 THEN b >= 128 /\ b <= 143
    ELSE IsCont(b)
RECURSIVE Utf8Decode(_)
Utf8Decode(bytes) ==
    IF bytes = <<>> THEN [ok |-> TRUE, text |-> <<>>]
    ELSE LET need == Utf8Need(bytes[1])
             good == /\ need < 4
                     /\ Len(bytes) > need
                     /\ need >= 1 => Utf8SecondOk(bytes[1], bytes[2])
                     /\ \A i \in 3..(need + 1) : IsCont(bytes[i])
             rest == Utf8Decode(Drop(bytes, need + 1))
         IN IF ~good \/ ~rest.ok THEN [ok |-> FALSE, text |-> <<>>]
            ELSE [ok |-> TRUE,
                  text |-> <<IF need = 0 THEN Chr(bytes[1]) ELSE "<U+>">> \o rest.text]

(***************************************************************************)
(* Logging and redaction                                                   *)
(***************************************************************************)

\* A log record.  The text of a message is a sequence whose elements are
\* the characters of the interpolated values and, as one element each, the
\* fixed texts around them (no key of the model occurs inside a fixed text).
Info(msg) == [level |-> "INFO", msg |-> msg]
Warning(msg) == [level |-> "WARNING", msg |-> msg]
Error(msg) == [level |-> "ERROR", msg |-> msg]

\* '***'
MASK == <<"*", "*", "*">>
\* 'apikey='
ApikeyEq == <<"a", "p", "i", "k", "e", "y", "=">>

\* text[:text.index('apikey=')] + 'apikey=***' if 'apikey=' in text else text
RedactTail(text) ==
    IF Contains(text, ApikeyEq)
    THEN Take(text, Find(text, ApikeyEq) - 1) \o ApikeyEq \o MASK
    ELSE text

\* str(e).replace(secret, '***') if secret in str(e) else str(e)
RedactSecret(msg, secret) ==
    IF Contains(msg, secret) THEN Replace(msg, secret, MASK) ELSE msg

\* An exception that leaves a function.
Raise(type, msg) == [type |-> type, msg |-> msg]
NotRaised == [type |-> "", msg |-> <<>>]

(***************************************************************************)
(* WeatherRealtimeApiSource.nilus_source                                   *)
(***************************************************************************)

\* 'url='
UrlEq == <<"u", "r", "l", "=">>
LocationName == <<"l", "o", "c", "a", "t", "i", "o", "n">>
UnitsName == <<"u", "n", "i", "t", "s">>
ApikeyName == <<"a", "p", "i", "k", "e", "y">>

\* f"Missing required '{name}' in URL query parameters", character by
\* character: the handler of line 234 may run str.replace over it.
MissingRequired(name) ==
    <<"M", "i", "s", "s", "i", "n", "g", " ", "r", "e", "q", "u", "i", "r",
      "e", "d", " ", "'">>
    \o name \o
    <<"'", " ", "i", "n", " ", "U", "R", "L", " ", "q", "u", "e", "r", "y",
      " ", "p", "a", "r", "a", "m", "e", "t", "e", "r", "s">>

NoArgs == [base_url |-> None, location |-> None, units |-> None, apikey |-> None, table |-> None]

\* The except clause of lines 234-238 for the failure message msg;
\* key_bound says whether encoded_apikey was assigned (line 198) before the
\* failure.  With encoded_apikey None the `in` test itself raises.
OuterExcept(msg, key_bound, encoded_apikey, redacted_uri) ==
    IF key_bound /\ encoded_apikey = None
    THEN [log |-> <<>>,
          raised |-> Raise("TypeError", <<"'in <string>' requires string as left operand, not NoneType">>)]
    ELSE LET redacted_error == IF key_bound THEN RedactSecret(msg, encoded_apikey) ELSE msg
         IN [log |-> <<Error(<<"Failed to parse URI: ">> \o redacted_uri \o <<", error: ">> \o redacted_error)>>,
             raised |-> Raise("ValueError", <<"Invalid or missing parameters in URI: ">> \o redacted_error)]

\* A failure inside the try block: what was logged before it, then the
\* except clause.
FailInTry(logged, msg, key_bound, encoded_apikey, redacted_uri) ==
    LET h == OuterExcept(msg, key_bound, encoded_apikey, redacted_uri)
    IN [log |-> logged \o h.log, raised |-> h.raised, args |-> NoArgs]

\* Lines 224-232: the decoded, stripped key, or the failure of the inner
\* except clause.
DecodeApikey(encoded_apikey, location) ==
    LET raw == b64decode(encoded_apikey)
        text == IF raw.ok THEN Utf8Decode(raw.bytes) ELSE [ok |-> FALSE, text |-> <<>>]
        cause == IF ~raw.ok THEN <<raw.error>> ELSE <<"'utf-8' codec can't decode bytes">>
        redacted_error == RedactSecret(cause, encoded_apikey)
    IN IF text.ok
       THEN [ok |-> TRUE, apikey |-> Strip(text.text),
             log |-> <<Info(<<"Weather API credentials decoded successfully for location: ">> \o location)>>,
             msg |-> <<>>]
       ELSE [ok |-> FALSE, apikey |-> <<>>,
             log |-> <<Error(<<"Failed to decode base64-encoded apikey for location: ">> \o location
                              \o <<": ">> \o redacted_error)>>,
             msg |-> <<"Invalid or missing base64-encoded apikey in URL: ">> \o redacted_error]

\* Lines 207-247, once location and the key are known to be there: the
\* cleaned location, the base URL, the decoded key, the call.
BuildArgs(parsed_full_url, clean_query_string, location, units, encoded_apikey, decoded, table, redacted_uri, log2) ==
    LET base_url == parsed_full_url.scheme \o <<":", "/", "/">> \o parsed_full_url.netloc
                    \o parsed_full_url.path
                    \o (IF clean_query_string # <<>> THEN <<"?">> \o clean_query_string ELSE <<>>)
    IN IF location = <<>>
       THEN FailInTry(Append(log2, Error(<<"Location is empty after cleaning: ">> \o location)),
                      <<"Location is empty after cleaning">>, TRUE, encoded_apikey, redacted_uri)
       ELSE IF ~decoded.ok
       THEN FailInTry(log2 \o decoded.log, decoded.msg, TRUE, encoded_apikey, redacted_uri)
       ELSE [log |-> log2 \o decoded.log
                     \o <<Info(<<"Creating Weather API source for table: ">> \o table
                               \o <<" with location: ">> \o location)>>,
             raised |-> NotRaised,
             args |-> [base_url |-> base_url, location |-> location, units |-> units,
                       apikey |-> decoded.apikey, table |-> table]]

\* Lines 200-205: the two required parameters.
CheckRequired(parsed_full_url, url_query_params, location, units, encoded_apikey, redacted_full_url, table, redacted_uri, log2) ==
    IF ~Truthy(location)
    THEN FailInTry(Append(log2, Error(<<"No 'location' parameter found in URL query: ">> \o redacted_full_url)),
                   MissingRequired(LocationName), TRUE, encoded_apikey, redacted_uri)
    ELSE IF ~Truthy(encoded_apikey)
    THEN FailInTry(Append(log2, Error(<<"No 'apikey' parameter found in URL query: ">> \o redacted_full_url)),
                   MissingRequired(ApikeyName), TRUE, encoded_apikey, redacted_uri)
    ELSE BuildArgs(parsed_full_url,
                   urlencode(url_query_params,
                             SelectSeq(QsNames(url_query_params, {}),
                                       LAMBDA k : k \notin {LocationName, UnitsName, ApikeyName})),
                   Strip(unquote(location)), units, encoded_apikey,
                   DecodeApikey(encoded_apikey, Strip(unquote(location))),
                   table, redacted_uri, log2)

\* Lines 196-198: the first value of each of the three parameters.
ReadParams(parsed_full_url, url_query_params, redacted_full_url, table, redacted_uri, log2) ==
    CheckRequired(parsed_full_url, url_query_params,
                  QsGetFirst(url_query_params, LocationName),
                  QsGetFirst(url_query_params, UnitsName),
                  QsGetFirst(url_query_params, ApikeyName),
                  redacted_full_url, table, redacted_uri, log2)

\* Lines 192-193
ParseQuery(parsed_full_url, redacted_full_url, table, redacted_uri, log2) ==
    ReadParams(parsed_full_url, parse_qsl(parsed_full_url.query), redacted_full_url, table,
               redacted_uri, log2)

\* Lines 185-232, once full_url is known.
ParseFullUrl(full_url, redacted_full_url, table, redacted_uri, log1) ==
    ParseQuery(urlparse(full_url), redacted_full_url, table, redacted_uri,
               Append(log1, Info(<<"Extracted full_url: ">> \o redacted_full_url)))

\* Lines 173-183: the query of the URI must start with url= and go on.
ExtractFullUrl(query, full_url, table, redacted_uri, log1) ==
    IF ~StartsWith(query, UrlEq)
    THEN FailInTry(Append(log1, Error(<<"Expected 'url=' as query parameter in URI: ">> \o redacted_uri)),
                   <<"Missing 'url' parameter in URI">>, FALSE, None, redacted_uri)
    ELSE IF full_url = <<>>
    THEN FailInTry(Append(log1, Error(<<"Empty 'url' value in URI: ">> \o redacted_uri)),
                   <<"Empty 'url' value in URI">>, FALSE, None, redacted_uri)
    ELSE ParseFullUrl(full_url, RedactTail(full_url), table, redacted_uri, log1)

\* Lines 165-180
ParseUri(query, table, redacted_uri) ==
    ExtractFullUrl(query, unquote(Drop(query, 4)), table, redacted_uri,
                   <<Info(<<"Parsing URI: ">> \o redacted_uri)>>)

\* nilus_source(uri, table) up to the call of weather_source: what it logs,
\* what it raises, and the arguments it passes to weather_source.
nilus_source(uri, table) == ParseUri(urlparse(uri).query, table, RedactTail(uri))

(***************************************************************************)
(* weather_source                                                          *)
(***************************************************************************)

NoSource == [full_url |-> None, location |-> None, units |-> None, apikey |-> None, table |-> None]

\* weather_source(base_url, location, units, apikey, table) up to the yield
\* of the resource: the argument checks, the request URL, the log line.
weather_source(a) ==
    LET query_params == <<LocationName \o <<"=">> \o a.location>>
                        \o (IF Truthy(a.units) THEN <<UnitsName \o <<"=">> \o a.units>> ELSE <<>>)
                        \o <<ApikeyEq \o a.apikey>>
        query_string == Join(query_params, <<"&">>)
        full_url == a.base_url \o <<"?">> \o query_string
        redacted_url == IF Truthy(a.units)
                        THEN a.base_url \o <<"?">> \o LocationName \o <<"=">> \o a.location
                             \o <<"&">> \o UnitsName \o <<"=">> \o a.units \o <<"&">> \o ApikeyEq \o MASK
                        ELSE a.base_url \o <<"?">> \o LocationName \o <<"=">> \o a.location
                             \o <<"&">> \o ApikeyEq \o MASK
        Refuse(what) == [log |-> <<>>, raised |-> Raise("ValueError", <<what>>), source |-> NoSource]
    IN IF ~Truthy(a.table) THEN Refuse("table must be a non-empty string")
       ELSE IF ~Truthy(a.base_url) THEN Refuse("base_url must be a non-empty string")
       ELSE IF ~Truthy(a.location) THEN Refuse("location must be a non-empty string")
       ELSE IF ~Truthy(a.apikey) THEN Refuse("apikey must be a non-empty string")
       ELSE [log |-> <<Info(<<"Fetching weather data from: ">> \o redacted_url)>>,
             raised |-> NotRaised,
             source |-> [full_url |-> full_url, location |-> a.location, units |-> a.units,
                         apikey |-> a.apikey, table |-> a.table]]

(***************************************************************************)
(* flatten_json                                                            *)
(***************************************************************************)

\* new_key = f"{parent_key}{separator}{key}" if parent_key else key
NewKeyMutantAlwaysPrefix(parent_key, separator, key) == parent_key \o separator \o key
NewKey(parent_key, separator, key) ==
    IF parent_key # "" THEN parent_key \o separator \o key ELSE key

RECURSIVE flatten_json(_, _, _)
\* The list `items` after the loop over member i.. of nested_json.
RECURSIVE FlattenMembers(_, _, _, _)
FlattenMembers(nested_json, parent_key, separator, i) ==
    IF i > Len(nested_json.kids) THEN <<>>
    ELSE LET value == nested_json.kids[i].node
             key == IF nested_json.t = "obj" THEN nested_json.kids[i].key ELSE IntStr(i - 1)
             new_key == NewKey(parent_key, separator, key)
             here == IF IsContainer(value)
                     THEN flatten_json(value, new_key, separator)
                     ELSE <<[key |-> new_key, val |-> value.v]>>
         IN here \o FlattenMembers(nested_json, parent_key, separator, i + 1)

flatten_json(nested_json, parent_key, separator) ==
    IF IsContainer(nested_json)
    THEN DictOf(FlattenMembers(nested_json, parent_key, separator, 1))
    ELSE DictOf(<<>>)

(***************************************************************************)
(* weather_source.weather_records                                          *)
(***************************************************************************)

\* The JSON scalars Python takes for false: None, False, 0, "".
Falsy == {"null", "false", "0", ""}
\* None as a JSON value
JNone == Val("null")
\* bool(j)
TruthyJ(j) == IF IsContainer(j) THEN j.kids # <<>> ELSE j.v \notin Falsy
HasKey(j, k) == \E i \in 1..Len(j.kids) : j.kids[i].key = k
\* d.get(k, default) of a dict d
JGet(j, k, default) ==
    IF HasKey(j, k) THEN j.kids[CHOOSE i \in 1..Len(j.kids) : j.kids[i].key = k].node ELSE default
\* type(j).__name__ (every scalar but None is taken for a str)
TypeName(j) == IF j.t = "obj" THEN "dict" ELSE IF j.t = "arr" THEN "list"
               ELSE IF j = JNone THEN "NoneType" ELSE "str"
\* The AttributeError of j.attr on a value that is no dict.
NoAttribute(j, attr) == <<"'" \o TypeName(j) \o "' object has no attribute '" \o attr \o "'">>
\* The value stored in a record field: the scalar itself (a container,
\* which no response of the model puts there, is kept as one token).
FieldOf(j) == IF IsContainer(j) THEN "<" \o j.t \o ">" ELSE j.v
\* A text as one string.
RECURSIVE TextStr(_)
TextStr(s) == IF s = <<>> THEN "" ELSE s[1] \o TextStr(Tail(s))
\* str(d) of a dict, one element per key and per value
RECURSIVE DictText(_)
DictText(d) == IF d = <<>> THEN <<>> ELSE <<d[1].key, ": ", d[1].val, ", ">> \o DictText(Tail(d))

\* datetime.utcnow().isoformat() + 'Z' at clock value t
IsoZ(t) == "T" \o IntStr(t) \o "Z"

\* flattened_record['units'] = units if units else 'metric'
UnitsField(units) == IF Truthy(units) THEN TextStr(units) ELSE "metric"

\* Lines 118-122: the five assignments after flattening.
InjectFieldsMutantKeepFlattened(flattened_record, latitude, longitude, record_time, load_datetime, units) ==
    DictOf(<<[key |-> "latitude", val |-> FieldOf(latitude)],
             [key |-> "longitude", val |-> FieldOf(longitude)],
             [key |-> "time", val |-> FieldOf(record_time)],
             [key |-> "load_datetime", val |-> load_datetime],
             [key |-> "units", val |-> UnitsField(units)]>> \o flattened_record)
InjectFields(flattened_record, latitude, longitude, record_time, load_datetime, units) ==
    DictSet(DictSet(DictSet(DictSet(DictSet(flattened_record,
        "latitude", FieldOf(latitude)),
        "longitude", FieldOf(longitude)),
        "time", FieldOf(record_time)),
        "load_datetime", load_datetime),
        "units", UnitsField(units))

\* What one run of the generator does with the response, up to its yield,
\* return or raise.
Yielded(log, rec) == [status |-> "yielded", log |-> log, records |-> <<rec>>, raised |-> NotRaised]
Returned(log) == [status |-> "returned", log |-> log, records |-> <<>>, raised |-> NotRaised]
Raised(log, e) == [status |-> "raised", log |-> log, records |-> <<>>, raised |-> e]

\* except requests.RequestException (lines 127-131)
FetchFailed(src, cause, logged) ==
    LET redacted_error == RedactSecret(cause, src.apikey)
    IN Raised(Append(logged, Error(<<"Failed to fetch weather data for location: ">> \o src.location
                                   \o <<": ">> \o redacted_error)),
              Raise("ValueError", <<"Failed to fetch weather data: ">> \o redacted_error))

\* except Exception (lines 132-136)
ProcessingFailed(src, cause, logged) ==
    LET redacted_error == RedactSecret(cause, src.apikey)
    IN Raised(Append(logged, Error(<<"Error processing API response for location: ">> \o src.location
                                   \o <<": ">> \o redacted_error)),
              Raise("ValueError", <<"Error processing API response: ">> \o redacted_error))

\* if not record (line 96)
NoDataMutantNever(record) == FALSE
NoData(record) == ~TruthyJ(record)

\* Lines 100-125, once data is a dict and record is truthy.
BuildRecord(src, data, record, load_datetime, log1) ==
    LET location_info == JGet(data, "location", Obj(<<>>))
        latitude == JGet(location_info, "lat", JNone)
        longitude == JGet(location_info, "lon", JNone)
        log2 == IF latitude = JNone \/ longitude = JNone
                THEN Append(log1, Warning(<<"Latitude or longitude not found in API response for location: ">>
                                          \o src.location))
                ELSE log1
        record_time == JGet(record, "time", JNone)
        log3 == IF ~TruthyJ(record_time)
                THEN Append(log2, Warning(<<"No time found in API response for location: ">> \o src.location))
                ELSE log2
        values == JGet(record, "values", Obj(<<>>))
        flattened_record == InjectFields(flatten_json(values, "", "_"), latitude, longitude,
                                         record_time, load_datetime, src.units)
    IN IF location_info.t # "obj" THEN ProcessingFailed(src, NoAttribute(location_info, "get"), log1)
       ELSE IF record.t # "obj" THEN ProcessingFailed(src, NoAttribute(record, "get"), log2)
       ELSE Yielded(Append(log3, Info(<<"Yielding flattened record for table ">> \o src.table \o <<": ">>
                                      \o DictText(flattened_record))),
                    flattened_record)

\* Lines 85-136 for the response resp of the one GET.  A failed GET and a
\* failed raise_for_status raise a RequestException whose text names the
\* request URL; json_error_is_request_exception says whether the failure of
\* response.json() is one too (requests.exceptions.JSONDecodeError, since
\* requests 2.27) or a plain ValueError (before).
weather_records(src, resp, load_datetime, json_error_is_request_exception) ==
    LET data == resp.body
        log1 == <<Info(<<"API response keys: ">> \o [i \in 1..Len(data.kids) |-> data.kids[i].key])>>
        record == JGet(data, "data", Obj(<<>>))
    IN IF resp.kind = "transport"
       THEN FetchFailed(src, <<"HTTPSConnectionPool: Max retries exceeded with url: ">> \o src.full_url, <<>>)
       ELSE IF resp.kind = "status"
       THEN FetchFailed(src, <<"401 Client Error: Unauthorized for url: ">> \o src.full_url, <<>>)
       ELSE IF resp.kind = "badjson"
       THEN IF json_error_is_request_exception
            THEN FetchFailed(src, <<"Expecting value: line 1 column 1 (char 0)">>, <<>>)
            ELSE ProcessingFailed(src, <<"Expecting value: line 1 column 1 (char 0)">>, <<>>)
       ELSE IF data.t # "obj" THEN ProcessingFailed(src, NoAttribute(data, "keys"), <<>>)
       ELSE IF NoData(record)
       THEN Returned(Append(log1, Warning(<<"No data found in response for location: ">> \o src.location)))
       ELSE BuildRecord(src, data, record, load_datetime, log1)

(***************************************************************************)
(* The pipeline as a state machine                                         *)
(***************************************************************************)

\* How many times the resource is iterated.
MaxRuns == 3

\* The table name of every call.
Table == <<"t">>

\* The responses to the GET: the request fails in transport, the status is
\* no success, the body is no JSON, or the body is the JSON value `body`.
Failure(kind) == [kind |-> kind, body |-> JNone]
Json(body) == [kind |-> "json", body |-> body]

FlatValues == Obj(<<KV("temp", Val("1"))>>)
NestedValues == Obj(<<KV("wind", Obj(<<KV("speed", Val("2"))>>)), KV("tags", Arr(<<Val("a")>>))>>)
ClashingValues == Obj(<<KV("latitude", Val("9")), KV("longitude", Val("9")), KV("time", Val("t9")),
                        KV("load_datetime", Val("T9")), KV("units", Val("u9")), KV("temp", Val("1"))>>)

\* The `data` member of the body, if any.
DataMembers ==
    { <<>>,
      <<KV("data", Obj(<<>>))>>,
      <<KV("data", JNone)>>,
      <<KV("data", Val("x"))>>,
      <<KV("data", Obj(<<KV("time", Val("t1")), KV("values", FlatValues)>>))>>,
      <<KV("data", Obj(<<KV("values", NestedValues)>>))>>,
      <<KV("data", Obj(<<KV("time", Val("t1"))>>))>>,
      <<KV("data", Obj(<<KV("time", Val("t1")), KV("values", ClashingValues)>>))>> }

\* The `location` member of the body, if any.
LocationMembers ==
    { <<>>,
      <<KV("location", JNone)>>,
      <<KV("location", Obj(<<>>))>>,
      <<KV("location", Obj(<<KV("lat", Val("1.0"))>>))>>,
      <<KV("location", Obj(<<KV("lat", Val("1.0")), KV("lon", Val("2.0"))>>))>> }

Responses ==
    {Failure("transport"), Failure("status"), Failure("badjson"), Json(Arr(<<>>))}
    \cup {Json(Obj(d \o l)) : d \in DataMembers, l \in LocationMembers}

NoResponse == Failure("none")

\* The n-th run of the generator: its position (created, stamped, requested,
\* responded, yielded, returned, raised), its load_datetime, the GETs it
\* issued, the response it got, what it logged, yielded and raised.
NewRun(n) == [n |-> n, status |-> "created", load_datetime |-> "", stamped_at |-> 0, gets |-> <<>>,
              response |-> NoResponse, log |-> <<>>, records |-> <<>>, raised |-> NotRaised]

Finished(run) == run.status \in {"returned", "raised"}
Current == runs[Len(runs)]
SetCurrent(run) == [runs EXCEPT ![Len(runs)] = run]
Running(status) == pc = "ready" /\ runs # <<>> /\ Current.status = status

\* load_datetime = datetime.utcnow().isoformat() + 'Z' (line 83); earlier
\* is the run before this one, if any.
LoadDatetimeMutantOfRunBefore(clock, earlier) ==
    IF earlier = <<>> THEN IsoZ(clock) ELSE earlier[1].load_datetime
LoadDatetime(clock, earlier) == IsoZ(clock)

\* What the generator's frame holds once the consumer has taken `rec`.
AtYieldMutantTwice(out) == [out EXCEPT !.records = out.records \o out.records]
AtYield(out) == out

\* nilus_source(uri, table), up to its call of weather_source
NilusSource ==
    /\ pc = "parse"
    /\ LET r == nilus_source(input_uri, Table)
       IN /\ pipeline_log' = pipeline_log \o r.log
          /\ raised' = r.raised
          /\ args' = r.args
          /\ pc' = IF r.raised = NotRaised THEN "construct" ELSE "failed"
    /\ UNCHANGED <<input_uri, given, source, now, runs, modern_requests>>
    /\ UNCHANGED flattenVars

\* weather_source(base_url, location, units, apikey, table): the nilus
\* framework runs the decorated function and keeps the resource it yields.
WeatherSource ==
    /\ pc = "construct"
    /\ LET r == weather_source(args)
       IN /\ pipeline_log' = pipeline_log \o r.log
          /\ raised' = r.raised
          /\ source' = r.source
          /\ pc' = IF r.raised = NotRaised THEN "ready" ELSE "failed"
    /\ UNCHANGED <<input_uri, given, args, now, runs, modern_requests>>
    /\ UNCHANGED flattenVars

\* The framework iterates the resource: weather_records() makes a new
\* generator, once the one before it has ended.
StartRun ==
    /\ pc = "ready"
    /\ IF runs = <<>> THEN TRUE ELSE Finished(Current) /\ Current.n < MaxRuns
    /\ runs' = Append(IF Len(runs) < 2 THEN runs ELSE Tail(runs),
                      NewRun(IF runs = <<>> THEN 1 ELSE Current.n + 1))
    /\ UNCHANGED <<pc, input_uri, given, pipeline_log, raised, args, source, now, modern_requests>>
    /\ UNCHANGED flattenVars

\* The only iteration of a pipeline that is followed from its URI.
FirstRun == runs = <<>> /\ StartRun

\* Line 83
StampLoadDatetime ==
    /\ Running("created")
    /\ runs' = SetCurrent([Current EXCEPT !.status = "stamped",
                                          !.load_datetime = LoadDatetime(now, SubSeq(runs, 1, Len(runs) - 1)),
                                          !.stamped_at = now])
    /\ now' = now + 1
    /\ UNCHANGED <<pc, input_uri, given, pipeline_log, raised, args, source, modern_requests>>
    /\ UNCHANGED flattenVars

\* Line 87: requests.get(full_url) sends the request
IssueGet ==
    /\ Running("stamped")
    /\ runs' = SetCurrent([Current EXCEPT !.status = "requested",
                                          !.gets = Append(@, [url |-> source.full_url, at |-> now])])
    /\ now' = now + 1
    /\ UNCHANGED <<pc, input_uri, given, pipeline_log, raised, args, source, modern_requests>>
    /\ UNCHANGED flattenVars

\* The network and the API answer the request.
HttpRespond ==
    /\ Running("requested")
    /\ \E resp \in Responses : runs' = SetCurrent([Current EXCEPT !.status = "responded", !.response = resp])
    /\ UNCHANGED <<pc, input_uri, given, pipeline_log, raised, args, source, now, modern_requests>>
    /\ UNCHANGED flattenVars

\* Lines 87-136: the rest of the body, up to the yield, return or raise.
Process ==
    /\ Running("responded")
    /\ LET out == weather_records(source, Current.response, Current.load_datetime,
                                  modern_requests)
           got == IF out.status = "yielded" THEN AtYield(out) ELSE out
       IN runs' = SetCurrent([Current EXCEPT !.status = got.status, !.log = got.log,
                                             !.records = got.records, !.raised = got.raised])
    /\ UNCHANGED <<pc, input_uri, given, pipeline_log, raised, args, source, now, modern_requests>>
    /\ UNCHANGED flattenVars

\* The consumer asks for the next record: the body runs from the yield
\* (line 125) to its end and the generator is exhausted.
Resume ==
    /\ Running("yielded")
    /\ runs' = SetCurrent([Current EXCEPT !.status = "returned"])
    /\ UNCHANGED <<pc, input_uri, given, pipeline_log, raised, args, source, now, modern_requests>>
    /\ UNCHANGED flattenVars

\* No pipeline: the state of its variables while flatten_json is called on
\* its own.
NoGiven == [location |-> None, units |-> None, apikey |-> None, b64 |-> None, plain |-> None,
            extra |-> FALSE, order |-> "", outer |-> ""]
PipelineIdle ==
    /\ pc = "idle" /\ input_uri = <<>> /\ given = NoGiven /\ pipeline_log = <<>> /\ raised = NotRaised
    /\ args = NoArgs /\ source = NoSource /\ now = 0 /\ runs = <<>>
    /\ modern_requests = FALSE
FlattenIdle == fj_pc = "idle" /\ fj_in = Obj(<<>>) /\ fj_sep = "_" /\ fj_out = <<>>

(***************************************************************************)
(* Inputs of nilus_source                                                  *)
(***************************************************************************)

\* 'custom://WeatherRealtimeApiSource?'
UriPrefix == <<"c", "u", "s", "t", "o", "m", ":", "/", "/", "W", "e", "a", "t", "h", "e", "r", "R", "e", "a", "l", "t", "i", "m", "e", "A", "p", "i", "S", "o", "u", "r", "c", "e", "?">>
\* 'https://h/p'
InnerBase == <<"h", "t", "t", "p", "s", ":", "/", "/", "h", "/", "p">>

\* The values of `location` in the inner URL: none, blank, a plain one, one
\* that needs percent-decoding and trimming.
GivenLocations == {None, <<>>, <<"1", ".", "0", ",", "2", ".", "0">>, <<"%", "2", "0", "n", "y">>}
\* The values of `units`
GivenUnits == {None, <<>>, <<"m", "e", "t", "r", "i", "c">>}
\* The values of `apikey` in the inner URL: text is the value as written
\* there, b64 the base64 text it stands for, plain the credential that b64
\* encodes (None when b64 encodes none).
GivenApikeys ==
    { [text |-> None, b64 |-> None, plain |-> None],
      [text |-> <<>>, b64 |-> <<>>, plain |-> None],
      [text |-> <<"S", "0", "V", "Z">>, b64 |-> <<"S", "0", "V", "Z">>, plain |-> <<"K", "E", "Y">>],
      [text |-> <<"P", "j", "4", "+">>, b64 |-> <<"P", "j", "4", "+">>, plain |-> <<">", ">", ">">>],
      [text |-> <<"P", "j", "4", "%", "2", "B">>, b64 |-> <<"P", "j", "4", "+">>, plain |-> <<">", ">", ">">>],
      [text |-> <<"S", "0", "V">>, b64 |-> <<"S", "0", "V">>, plain |-> None],
      [text |-> <<"/", "w", "=", "=">>, b64 |-> <<"/", "w", "=", "=">>, plain |-> None] }

Givens ==
    { [location |-> l, units |-> u, apikey |-> k.text, b64 |-> k.b64, plain |-> k.plain,
       extra |-> x, order |-> o, outer |-> w] :
      l \in GivenLocations, u \in GivenUnits, k \in GivenApikeys, x \in BOOLEAN,
      o \in {"location,units,apikey", "apikey,units,location"},
      w \in {"plain", "quoted", "no url=", "empty"} }

\* name=value, if the parameter is given
Param(name, value) == IF value = None THEN <<>> ELSE <<name \o <<"=">> \o value>>

\* The inner URL that g describes.
InnerUrl(g) ==
    LET l == Param(LocationName, g.location)
        u == Param(UnitsName, g.units)
        k == Param(ApikeyName, g.apikey)
        x == IF g.extra THEN <<<<"x", "=", "1">>>> ELSE <<>>
        params == IF g.order = "location,units,apikey" THEN l \o u \o k \o x ELSE k \o u \o l \o x
    IN InnerBase \o <<"?">> \o Join(params, <<"&">>)

\* The URI handed to nilus_source: the inner URL as it is, or percent-quoted
\* by the caller, or under another parameter name, or left out.
UriOf(g) ==
    IF g.outer = "plain" THEN UriPrefix \o UrlEq \o InnerUrl(g)
    ELSE IF g.outer = "quoted" THEN UriPrefix \o UrlEq \o quote_plus(InnerUrl(g))
    ELSE IF g.outer = "no url=" THEN UriPrefix \o <<"u", "=">> \o InnerUrl(g)
    ELSE UriPrefix \o UrlEq

Init ==
    /\ pc = "parse"
    /\ given \in Givens
    /\ input_uri = UriOf(given)
    /\ pipeline_log = <<>> /\ raised = NotRaised /\ args = NoArgs /\ source = NoSource
    /\ now = 1 /\ runs = <<>>
    /\ modern_requests \in BOOLEAN
    /\ FlattenIdle

Next ==
    \/ NilusSource
    \/ WeatherSource
    \/ FirstRun
    \/ StampLoadDatetime
    \/ IssueGet
    \/ HttpRespond
    \/ Process
    \/ Resume

\* One pipeline from its URI to the end of its one run.
Spec == Init /\ [][Next]_vars

(***************************************************************************)
(* Inputs of weather_source                                                *)
(***************************************************************************)

GenArgs ==
    { [base_url |-> InnerBase, location |-> <<"1", ".", "0", ",", "2", ".", "0">>, units |-> u, apikey |-> k, table |-> Table] :
      u \in {None, <<>>, <<"i", "m", "p", "e", "r", "i", "a", "l">>}, k \in {<<"K", "E", "Y">>, <<>>} }

GenInit ==
    /\ pc = "construct"
    /\ args \in GenArgs
    /\ input_uri = <<>> /\ given = NoGiven
    /\ pipeline_log = <<>> /\ raised = NotRaised /\ source = NoSource
    /\ now = 1 /\ runs = <<>>
    /\ modern_requests \in BOOLEAN
    /\ FlattenIdle

GenNext ==
    \/ WeatherSource
    \/ StartRun
    \/ StampLoadDatetime
    \/ IssueGet
    \/ HttpRespond
    \/ Process
    \/ Resume

\* One source, iterated up to MaxRuns times.
SpecGen == GenInit /\ [][GenNext]_vars

(***************************************************************************)
(* Inputs of the flattener: every JSON value of at most MaxNodes nodes     *)
(* over FlatKeys and FlatScalars, and the documented example.              *)
(***************************************************************************)
MaxNodes == 4
\* "a_" is also what flattening {"a": {"": ...}} with "_" synthesizes, and ""
\* is the key Python treats as a missing parent key.
FlatKeys == {"a", "a_", ""}
FlatScalars == {"1", "2"}
Separators == {"_", "."}

\* {"a": {"b": 1, "c": [2, 3]}}
ExampleInput ==
    Obj(<<KV("a", Obj(<<KV("b", Val("1")), KV("c", Arr(<<Val("2"), Val("3")>>))>>))>>)

\* The sequences of distinct object keys, by length.
RECURSIVE KeySeqs(_)
KeySeqs(n) ==
    IF n = 0 THEN {<<>>}
    ELSE {Append(ks, k) : ks \in KeySeqs(n - 1), k \in FlatKeys} \ 
         {Append(ks, ks[i]) : ks \in {q \in KeySeqs(n - 1) : q # <<>>}, i \in 1..(n - 1)}
WithKeys(f, ks) == [i \in 1..Len(f) |-> KV(ks[i], f[i])]

\* tbl[n] holds the JSON values of n nodes (tree) and the sequences of JSON
\* values with n nodes in all (forest), by the number of members; the table
\* is built one size at a time.
RECURSIVE JsonBySize(_)
JsonBySize(tbl) ==
    IF Len(tbl) >= MaxNodes THEN tbl
    ELSE LET n == Len(tbl) + 1
             \* forests of m nodes with c members
             ForestOf(m, c) == IF m = 0 THEN (IF c = 0 THEN {<<>>} ELSE {})
                               ELSE IF c = 0 \/ c > m THEN {} ELSE tbl[m].forest[c]
             RECURSIVE Containers(_)
             Containers(c) ==
                 IF c < 0 THEN {}
                 ELSE {Arr(f) : f \in ForestOf(n - 1, c)}
                      \cup {Obj(WithKeys(f, ks)) : f \in ForestOf(n - 1, c), ks \in KeySeqs(c)}
                      \cup Containers(c - 1)
             tree == IF n = 1
                     THEN {Val(s) : s \in FlatScalars} \cup {Obj(<<>>), Arr(<<>>)}
                     ELSE Containers(n - 1)
             TreeOf(k) == IF k = n THEN tree ELSE tbl[k].tree
             RECURSIVE FirstUpTo(_, _)
             \* forests of n nodes with c members whose first member has at most k nodes
             FirstUpTo(c, k) ==
                 IF k = 0 THEN {}
                 ELSE {<<t>> \o f : t \in TreeOf(k), f \in ForestOf(n - k, c - 1)} \cup FirstUpTo(c, k - 1)
             forest == [c \in 1..n |-> IF n = MaxNodes THEN {} ELSE FirstUpTo(c, n)]
         IN JsonBySize(Append(tbl, [tree |-> tree, forest |-> forest]))

RECURSIVE ContainersUpTo(_, _)
ContainersUpTo(tbl, n) ==
    IF n = 0 THEN {} ELSE {t \in tbl[n].tree : IsContainer(t)} \cup ContainersUpTo(tbl, n - 1)

FlattenInputs == {ExampleInput} \cup ContainersUpTo(JsonBySize(<<>>), MaxNodes)

FlattenInit ==
    /\ fj_pc = "call"
    /\ fj_in \in FlattenInputs
    /\ fj_sep \in Separators
    /\ fj_out = <<>>
    /\ PipelineIdle

\* result = flatten_json(fj_in, separator=fj_sep)
FlattenJson ==
    /\ fj_pc = "call"
    /\ fj_out' = flatten_json(fj_in, "", fj_sep)
    /\ fj_pc' = "returned"
    /\ UNCHANGED <<fj_in, fj_sep>>
    /\ UNCHANGED pipeVars

\* The result is flattened once more (the idempotence test of the spec).
FlattenAgain ==
    /\ fj_pc = "returned"
    /\ fj_out' = flatten_json(Obj([i \in 1..Len(fj_out) |-> KV(fj_out[i].key, Val(fj_out[i].val))]), "", fj_sep)
    /\ fj_pc' = "again"
    /\ UNCHANGED <<fj_in, fj_sep>>
    /\ UNCHANGED pipeVars

FlattenNext == FlattenJson \/ FlattenAgain
SpecFlatten == FlattenInit /\ [][FlattenNext]_vars
(***************************************************************************)
(* C6: what flatten_json returns, stated from the leaves of the input      *)
(***************************************************************************)

\* The scalar leaves of j in traversal order, each with its path (object
\* keys, and array indices as decimal strings) from the top.
RECURSIVE Leaves(_, _)
RECURSIVE LeavesFrom(_, _, _)
LeavesFrom(j, path, i) ==
    IF i > Len(j.kids) THEN <<>>
    ELSE LET step == IF j.t = "obj" THEN j.kids[i].key ELSE IntStr(i - 1)
         IN Leaves(j.kids[i].node, Append(path, step)) \o LeavesFrom(j, path, i + 1)
Leaves(j, path) ==
    IF IsContainer(j) THEN LeavesFrom(j, path, 1) ELSE <<[path |-> path, val |-> j.v]>>

\* The path components joined by sep.
RECURSIVE JoinPath(_, _)
JoinPath(path, sep) ==
    IF Len(path) = 1 THEN path[1]
    ELSE JoinPath(SubSeq(path, 1, Len(path) - 1), sep) \o sep \o path[Len(path)]

\* The path without its leading empty components (the last one is kept).
RECURSIVE DropLeadingEmpty(_)
DropLeadingEmpty(path) ==
    IF Len(path) > 1 /\ path[1] = "" THEN DropLeadingEmpty(Tail(path)) ELSE path

FlatResult == AsMap(fj_out)
FlatLeaves == Leaves(fj_in, <<>>)

\* A one-level map of scalars.
IsFlatObject(j) == j.t = "obj" /\ \A i \in 1..Len(j.kids) : ~IsContainer(j.kids[i].node)

\* C6 as claimed: the result holds, for every scalar leaf, the entry
\* (path joined by the separator) -> leaf value, and holds no other entry.
C6_EveryLeafUnderItsJoinedPath ==
    fj_pc = "returned" =>
        /\ DOMAIN FlatResult = {JoinPath(FlatLeaves[i].path, fj_sep) : i \in 1..Len(FlatLeaves)}
        /\ \A i \in 1..Len(FlatLeaves) :
               FlatResult[JoinPath(FlatLeaves[i].path, fj_sep)] = FlatLeaves[i].val

\* C6 amended: the keys of the result are exactly the joined paths of the
\* scalar leaves, where leading empty-string components are dropped (an
\* empty parent key counts as no parent), and each key holds the value of
\* the last leaf, in traversal order, with that joined path; hence one entry
\* per leaf when the joined paths are distinct.  A one-level map of scalars
\* is returned unchanged, also when the result is flattened again, and the
\* documented example gives exactly a_b -> 1, a_c_0 -> 2, a_c_1 -> 3.
LeafKey(i) == JoinPath(DropLeadingEmpty(FlatLeaves[i].path), fj_sep)
C6_LastLeafWinsUnderItsKey ==
    /\ fj_pc = "returned" =>
        /\ DOMAIN FlatResult = {LeafKey(i) : i \in 1..Len(FlatLeaves)}
        /\ \A i \in 1..Len(FlatLeaves) :
               (\A j \in (i + 1)..Len(FlatLeaves) : LeafKey(j) # LeafKey(i))
                   => FlatResult[LeafKey(i)] = FlatLeaves[i].val
        /\ IsFlatObject(fj_in) =>
               FlatResult = [k \in {fj_in.kids[i].key : i \in 1..Len(fj_in.kids)} |->
                                fj_in.kids[CHOOSE i \in 1..Len(fj_in.kids) : fj_in.kids[i].key = k].node.v]
        /\ (fj_in = ExampleInput /\ fj_sep = "_") =>
               FlatResult = [k \in {"a_b", "a_c_0", "a_c_1"} |->
                                IF k = "a_b" THEN "1" ELSE IF k = "a_c_0" THEN "2" ELSE "3"]
    /\ fj_pc = "again" => FlatResult = AsMap(flatten_json(fj_in, "", fj_sep))

\* Witness: a nested input with an array under an object has been flattened
\* to more than one prefixed key.
C6_Witness ==
    /\ fj_pc = "returned"
    /\ fj_in = ExampleInput
    /\ fj_sep = "_"
    /\ Cardinality(DOMAIN FlatResult) = 3

(***************************************************************************)
(* Claims about nilus_source, under Spec                                   *)
(***************************************************************************)

\* The URI wraps an inner URL: its query starts with url= and goes on.
Wrapped == given.outer \in {"plain", "quoted"}
\* nilus_source has acted.
Parsed == pc # "parse" /\ pc # "idle"

\* Every text emitted so far: the log lines and error messages of
\* nilus_source and weather_source, and those of the generator's runs.
Emitted ==
    {pipeline_log[i].msg : i \in 1..Len(pipeline_log)}
    \cup (IF raised = NotRaised THEN {} ELSE {raised.msg})
    \cup UNION {{runs[r].log[i].msg : i \in 1..Len(runs[r].log)} : r \in 1..Len(runs)}
    \cup {runs[r].raised.msg : r \in {q \in 1..Len(runs) : runs[q].raised # NotRaised}}

\* The forms of the key: as written in the URI, the base64 text, the
\* decoded credential.
Secrets == {k \in {given.apikey, given.b64, given.plain} : Truthy(k)}

\* C1: no log line and no error message of nilus_source or of the generator
\* contains the apikey, in its base64 form or decoded, whatever the URI and
\* the failure.
C1_NoEmittedTextHoldsTheKey ==
    \A m \in Emitted : \A k \in Secrets : ~Contains(m, k)

\* C2: when the inner query lacks location or apikey (absent or blank),
\* nilus_source raises the ValueError that names a missing key, no source is
\* built and no GET is issued.
C2_MissingParameterIsRaised ==
    (Parsed /\ Wrapped /\ (~Truthy(given.location) \/ ~Truthy(given.apikey)))
    => /\ pc = "failed"
       /\ raised.type = "ValueError"
       /\ \/ ~Truthy(given.location) /\ Contains(raised.msg, MissingRequired(LocationName))
          \/ ~Truthy(given.apikey) /\ Contains(raised.msg, MissingRequired(ApikeyName))
       /\ source = NoSource
       /\ runs = <<>>

\* The arguments that the claim expects for the inner URL that `given`
\* describes.
ExpectedArgs ==
    [base_url |-> InnerBase \o (IF given.extra THEN <<"?", "x", "=", "1">> ELSE <<>>),
     location |-> Strip(unquote(given.location)),
     units |-> given.units,
     apikey |-> given.plain,
     table |-> Table]

\* C7: an inner URL with a location, optional units and a valid base64
\* apikey, in any order, gives weather_source the base URL with only the
\* other parameters, the percent-decoded trimmed location, the units as
\* given or none, and the decoded key.
C7_ArgumentsAreTheDecodedParameters ==
    (Parsed /\ Wrapped /\ Truthy(given.location) /\ Truthy(given.plain))
    => /\ pc # "failed"
       /\ args = ExpectedArgs

(***************************************************************************)
(* Claims about the generator, under SpecGen                               *)
(***************************************************************************)

RunIds == 1..Len(runs)
\* The body of the run has gone from the response to its yield, return or
\* raise.
Acted(r) == runs[r].status \in {"yielded", "returned", "raised"}
\* The GET of run r came back with a success status.
GetSucceeded(r) == runs[r].response.kind \in {"badjson", "json"}
\* The response of run r is a JSON object.
IsEnvelope(r) == runs[r].response.kind = "json" /\ runs[r].response.body.t = "obj"
\* Its members, None where the envelope has none.
DataOf(r) == JGet(runs[r].response.body, "data", JNone)
LocationOf(r) == JGet(runs[r].response.body, "location", JNone)
LatOf(r) == IF LocationOf(r).t = "obj" THEN JGet(LocationOf(r), "lat", JNone) ELSE JNone
LonOf(r) == IF LocationOf(r).t = "obj" THEN JGet(LocationOf(r), "lon", JNone) ELSE JNone
TimeOf(r) == IF DataOf(r).t = "obj" THEN JGet(DataOf(r), "time", JNone) ELSE JNone
\* Run r logged a warning.
Warned(r) == \E i \in 1..Len(runs[r].log) : runs[r].log[i].level = "WARNING"
\* Run r ended without an error.
EndedNormally(r) == runs[r].status = "returned" /\ runs[r].raised = NotRaised
\* The two errors of the generator, told by their message.
IsFetchFailed(e) == e.type = "ValueError" /\ StartsWith(e.msg, <<"Failed to fetch weather data: ">>)
IsResponseParseFailed(e) == e.type = "ValueError" /\ StartsWith(e.msg, <<"Error processing API response: ">>)

\* The envelope of run r has no data member, or an empty object for it.
DataAbsentOrEmpty(r) ==
    IsEnvelope(r) /\ (~HasKey(runs[r].response.body, "data") \/ DataOf(r) = Obj(<<>>))

\* C3: when the GET succeeds and the JSON envelope has no data key or an
\* empty data object, the run logs a warning, yields no record, returns
\* normally and raises nothing.
C3_NoDataEndsWithWarningAndNoRecord ==
    \A r \in RunIds :
        (Acted(r) /\ DataAbsentOrEmpty(r))
        => /\ EndedNormally(r)
           /\ runs[r].records = <<>>
           /\ Warned(r)

\* Two runs in a row met the two cases: no data key, then an empty object.
C3_Witness ==
    /\ Len(runs) = 2
    /\ EndedNormally(1) /\ ~HasKey(runs[1].response.body, "data") /\ IsEnvelope(1)
    /\ EndedNormally(2) /\ HasKey(runs[2].response.body, "data") /\ DataAbsentOrEmpty(2)

\* The envelope of run r holds a non-empty data object and lacks lat or lon
\* (the location may be missing or null).
CoordinateMissing(r) ==
    /\ IsEnvelope(r)
    /\ DataOf(r).t = "obj" /\ DataOf(r).kids # <<>>
    /\ LocationOf(r).t = "obj" \/ LocationOf(r) = JNone
    /\ LatOf(r) = JNone \/ LonOf(r) = JNone

\* C4: when the GET succeeds with non-empty data and the envelope lacks
\* location.lat or location.lon (the location object may be missing or
\* null), the run still yields exactly one record, whose missing coordinates
\* are null, logs a warning and raises nothing.
C4_MissingCoordinatesStillYield ==
    \A r \in RunIds :
        (Acted(r) /\ CoordinateMissing(r))
        => /\ runs[r].raised = NotRaised
           /\ Len(runs[r].records) = 1
           /\ AsMap(runs[r].records[1])["latitude"] = FieldOf(LatOf(r))
           /\ AsMap(runs[r].records[1])["longitude"] = FieldOf(LonOf(r))
           /\ Warned(r)

\* Each run issues one GET and yields at most one record.
OneGetOneRecord ==
    \A r \in RunIds :
        /\ Len(runs[r].gets) = (IF runs[r].status \in {"created", "stamped"} THEN 0 ELSE 1)
        /\ Len(runs[r].records) <= 1
        /\ runs[r].records # <<>> => runs[r].status \in {"yielded", "returned"}
\* After its yield a run can only return, and a run that has ended stays as
\* it is.
EndsAfterYield ==
    \A r \in RunIds : \A q \in 1..Len(runs') :
        runs'[q].n = runs[r].n
        => /\ runs[r].status = "yielded" => runs'[q] \in {runs[r], [runs[r] EXCEPT !.status = "returned"]}
           /\ Finished(runs[r]) => runs'[q] = runs[r]

\* C5: every run issues exactly one GET, yields at most one record and then
\* terminates, normally or with an error; it issues no second GET and yields
\* no second record, whatever the response.
C5_OneGetAtMostOneRecordThenEnd == []OneGetOneRecord /\ [][EndsAfterYield]_vars

\* One run yielded its record and returned, the next one raised.
C5_Witness ==
    /\ Len(runs) = 2
    /\ runs[1].status = "returned" /\ Len(runs[1].records) = 1 /\ Len(runs[1].gets) = 1
    /\ runs[2].status = "raised" /\ Len(runs[2].gets) = 1

\* C8: a transport failure or a non-success status ends the run with the
\* fetch error, no record and no second GET; a failure in processing the
\* body of a successful GET ends the run with the response-processing error,
\* and a body that cannot be processed never ends the run silently.
C8_FetchFailedOrResponseParseFailed ==
    \A r \in RunIds :
        Acted(r)
        => /\ ~GetSucceeded(r)
              => /\ runs[r].status = "raised" /\ IsFetchFailed(runs[r].raised)
                 /\ runs[r].records = <<>>
                 /\ Len(runs[r].gets) = 1
           /\ (GetSucceeded(r) /\ runs[r].status = "raised") => IsResponseParseFailed(runs[r].raised)
           /\ (GetSucceeded(r) /\ ~IsEnvelope(r)) => runs[r].status = "raised"

\* What run r shows of its outcome: the records, the error, the log.
OutcomeOf(run) == [records |-> run.records, raised |-> run.raised, log |-> run.log]

\* C9: consecutive runs of one source are independent: each issues its own
\* GET, stamps its own load_datetime before that GET and after the GET of
\* the run before, and its outcome is what its own response and its own
\* stamp give, whatever the earlier runs met.
C9_RunsAreIndependent ==
    \A r \in RunIds :
        /\ runs[r].status # "created" => runs[r].load_datetime = IsoZ(runs[r].stamped_at)
        /\ runs[r].gets # <<>>
           => /\ runs[r].stamped_at < runs[r].gets[1].at
              /\ runs[r].gets[1].url = source.full_url
        /\ (r > 1 /\ runs[r].status # "created")
           => /\ runs[r - 1].gets[1].at < runs[r].stamped_at
              /\ runs[r].load_datetime # runs[r - 1].load_datetime
        /\ Acted(r)
           => OutcomeOf(runs[r])
              = OutcomeOf(weather_records(source, runs[r].response, IsoZ(runs[r].stamped_at),
                                          modern_requests))

\* The first run failed on its fetch, the second one got a record from its
\* own response, under its own stamp.
C9_Witness ==
    /\ Len(runs) = 2
    /\ runs[1].status = "raised" /\ runs[1].response.kind = "transport"
    /\ runs[2].status = "returned" /\ Len(runs[2].records) = 1
    /\ AsMap(runs[2].records[1])["load_datetime"] = IsoZ(runs[2].stamped_at)
    /\ runs[2].stamped_at > runs[1].gets[1].at

\* C10: every record holds the five injected fields: latitude and longitude
\* of the envelope, time of data.time, load_datetime of its run, and units
\* as the caller gave them, or "metric" when the caller gave none (None or
\* the empty string); also when data.values has keys of these names.
C10_InjectedFieldsWin ==
    \A r \in RunIds : \A i \in 1..Len(runs[r].records) :
        LET rec == AsMap(runs[r].records[i])
        IN /\ {"latitude", "longitude", "time", "load_datetime", "units"} \subseteq DOMAIN rec
           /\ rec["latitude"] = FieldOf(LatOf(r))
           /\ rec["longitude"] = FieldOf(LonOf(r))
           /\ rec["time"] = FieldOf(TimeOf(r))
           /\ rec["load_datetime"] = runs[r].load_datetime
           /\ rec["units"] = (IF source.units \in {None, <<>>} THEN "metric" ELSE TextStr(source.units))

\* A record from values that hold all five names, for a caller who asked
\* for imperial units, and one for a caller who gave none.
C10_Witness ==
    /\ Len(runs) = 2
    /\ Len(runs[1].records) = 1
    /\ JGet(DataOf(1), "values", JNone) = ClashingValues
    /\ source.units \notin {None, <<>>}
    /\ AsMap(runs[1].records[1])["units"] = TextStr(source.units)
    /\ AsMap(runs[1].records[1])["temp"] = "1"
====
